---- MODULE Spec2Model ----
(***************************************************************************)
(* obj_loc (src/bin/obj_loc.rs): parse builds the list of GCs from a gdb   *)
(* log, find_moves reconstructs the moves of an object through the GCs.    *)
(* z_encode and z_decode (src/src/z_encode.rs, src/src/z_decode.rs), as    *)
(* the programs ze and zd apply them to an argument. repl (obj_loc.rs)     *)
(* reads lines at its prompt and shows what find_moves returns.            *)
(***************************************************************************)
EXTENDS Integers, Sequences, FiniteSets, TLC

\* Bounds of the model.
MaxAddr == 4
MaxSize == 2
MaxEras == 3
MaxMoves == 3
\* the longest argument of ze and zd
MaxZLen == 4
\* SpecParse and SpecMajor read at most this many relocation lines
ParseMaxMoves == 2
\* SpecRepl reads a log of at most this many "GC" and relocation lines
ReplMaxEras == 1
ReplMaxMoves == 1
\* the longest line typed at the prompt of repl
MaxLineLen == 3

Addrs == 1..MaxAddr
Sizes == 1..MaxSize
\* The flag word of a "GC" line: a u8; only the value 1 means major.
Flags == {0, 1}

VARIABLES
    gcs,             \* parse: `gcs`, and the slice find_moves reads
    current_gc,      \* parse: `current_gc`, <<>> for None, <<gc>> for Some(gc)
    status,          \* parse: "reading", "returned" (gcs handed to repl), "panicked"
    line,            \* the line of the reader that parse consumed last
    events,          \* per "GC" line read so far, the set of relocation lines read after it
    qpc,             \* find_moves: "idle", "loop" (inside the for), "done" (ret returned)
    addr,            \* find_moves: `addr`
    gc_n,            \* find_moves: `gc_n`, the index the for loop is about to visit
    skip_first_case, \* find_moves: `skip_first_case`
    ret,             \* find_moves: `ret`
    trig,            \* per element of ret, the GC and the case that pushed it
    zs,              \* ze, zd: the argument, a sequence of chars (code points)
    zenc,            \* ze: what z_encode returned for zs
    zdec,            \* zd: what z_decode returned, for zs or for the encoding of zs
    rpc,             \* repl: "off", "prompt" (inside the loop), "exited", "panicked"
    rin,             \* repl: what rl.readline returned last
    rout             \* repl: what was printed for it

vars == <<gcs, current_gc, status, line, events,
          qpc, addr, gc_n, skip_first_case, ret, trig, zs, zenc, zdec,
          rpc, rin, rout>>
zVars == <<zs, zenc, zdec>>
replVars == <<rpc, rin, rout>>
parseVars == <<gcs, current_gc, status, line, events>>
queryVars == <<qpc, addr, gc_n, skip_first_case, ret, trig>>

----------------------------------------------------------------------------
\* Data

AddrSize(a, s) == [addr |-> a, size |-> s]

EmptyMap == [x \in {} |-> 0]

GC_new(major) == [major |-> major, moves_fwd |-> EmptyMap, moves_bwd |-> EmptyMap]

Moves(loc, first_move, moves) == [loc |-> loc, first_move |-> first_move, moves |-> moves]

Reverse(s) == [i \in 1..Len(s) |-> s[Len(s) + 1 - i]]

----------------------------------------------------------------------------
\* parse

\* Mutant of insert_new: a plain insert, the assertion forgotten.
insert_new_unchecked(m, k, v) ==
    [map |-> [x \in (DOMAIN m) \cup {k} |-> IF x = k THEN v ELSE m[x]],
     ok  |-> TRUE]

\* HashMap::insert followed by assert!(ret.is_none()): the entry is written
\* (overwriting an old one) and the assertion fails when the key was present.
insert_new(m, k, v) ==
    [map |-> [x \in (DOMAIN m) \cup {k} |-> IF x = k THEN v ELSE m[x]],
     ok  |-> k \notin DOMAIN m]

GcLine(flag) == [kind |-> "gc", flag |-> flag]
MoveLine(from, to, size) == [kind |-> "move", from |-> from, to |-> to, size |-> size]
OtherLine == [kind |-> "other"]
BadLine == [kind |-> "bad"]
NoLine == [kind |-> "none"]
Eof == [kind |-> "eof"]

MovesRead == IF events = <<>> THEN 0
             ELSE LET n[i \in 0..Len(events)] ==
                        IF i = 0 THEN 0 ELSE n[i - 1] + Cardinality(events[i])
                  IN n[Len(events)]

\* Mutant of ReadGcLine: the current GC is put in front of the pushed ones.
ReadGcLine_prepend(flag) ==
    /\ status = "reading"
    /\ Len(events) < MaxEras
    /\ gcs' = IF current_gc # <<>> THEN <<current_gc[1]>> \o gcs ELSE gcs
    /\ current_gc' = <<GC_new(flag = 1)>>
    /\ line' = GcLine(flag)
    /\ events' = Append(events, {})
    /\ UNCHANGED <<status>>
    /\ UNCHANGED queryVars
    /\ UNCHANGED zVars
    /\ UNCHANGED replVars

\* A ">>> GC <flag>" line: the current GC, if any, is pushed, a new one opened.
ReadGcLine(flag) ==
    /\ status = "reading"
    /\ Len(events) < MaxEras
    /\ gcs' = IF current_gc # <<>> THEN Append(gcs, current_gc[1]) ELSE gcs
    /\ current_gc' = <<GC_new(flag = 1)>>
    /\ line' = GcLine(flag)
    /\ events' = Append(events, {})
    /\ UNCHANGED <<status>>
    /\ UNCHANGED queryVars
    /\ UNCHANGED zVars
    /\ UNCHANGED replVars

\* Mutant of record_move: the backward entry is keyed like the forward one.
record_move_same_key(gc, from, to, size) ==
    LET f == insert_new(gc.moves_fwd, from, AddrSize(to, size))
        b == insert_new(gc.moves_bwd, from, AddrSize(to, size))
    IN IF ~f.ok
       THEN [gc |-> [gc EXCEPT !.moves_fwd = f.map], ok |-> FALSE]
       ELSE [gc |-> [gc EXCEPT !.moves_fwd = f.map, !.moves_bwd = b.map], ok |-> b.ok]

\* Mutant of record_move: the backward insertion is a plain insert.
record_move_bwd_unchecked(gc, from, to, size) ==
    LET f == insert_new(gc.moves_fwd, from, AddrSize(to, size))
        b == insert_new(gc.moves_bwd, to, AddrSize(from, size))
    IN IF ~f.ok
       THEN [gc |-> [gc EXCEPT !.moves_fwd = f.map], ok |-> FALSE]
       ELSE [gc |-> [gc EXCEPT !.moves_fwd = f.map, !.moves_bwd = b.map], ok |-> TRUE]

\* The two insertions of a relocation line into the current GC. The second one
\* is not reached when the first assertion fails.
record_move(gc, from, to, size) ==
    LET f == insert_new(gc.moves_fwd, from, AddrSize(to, size))
        b == insert_new(gc.moves_bwd, to, AddrSize(from, size))
    IN IF ~f.ok
       THEN [gc |-> [gc EXCEPT !.moves_fwd = f.map], ok |-> FALSE]
       ELSE [gc |-> [gc EXCEPT !.moves_fwd = f.map, !.moves_bwd = b.map], ok |-> b.ok]

\* Mutant of ReadMoveLine: without an open GC one is opened for the line.
ReadMoveLine_implicit(from, to, size) ==
    /\ status = "reading"
    /\ MovesRead < MaxMoves
    /\ line' = MoveLine(from, to, size)
    /\ LET open == current_gc = <<>>
           r == record_move(IF open THEN GC_new(FALSE) ELSE current_gc[1], from, to, size)
       IN /\ events' = IF open THEN Append(events, {MoveLine(from, to, size)})
                       ELSE [events EXCEPT ![Len(events)] = @ \cup {MoveLine(from, to, size)}]
          /\ current_gc' = <<r.gc>>
          /\ status' = IF r.ok THEN "reading" ELSE "panicked"
          /\ UNCHANGED gcs
    /\ UNCHANGED queryVars
    /\ UNCHANGED zVars
    /\ UNCHANGED replVars

\* A ">>> from -> to size: n" line.
ReadMoveLine(from, to, size) ==
    /\ status = "reading"
    /\ MovesRead < MaxMoves
    /\ line' = MoveLine(from, to, size)
    /\ IF current_gc = <<>>
       THEN \* assert!(current_gc.is_some())
            /\ status' = "panicked"
            /\ UNCHANGED <<gcs, current_gc, events>>
       ELSE LET r == record_move(current_gc[1], from, to, size)
            IN /\ events' = [events EXCEPT ![Len(events)] = @ \cup {MoveLine(from, to, size)}]
               /\ current_gc' = <<r.gc>>
               /\ status' = IF r.ok THEN "reading" ELSE "panicked"
               /\ UNCHANGED gcs
    /\ UNCHANGED queryVars
    /\ UNCHANGED zVars
    /\ UNCHANGED replVars

\* Mutant of ReadOtherLine: the prefix is not tested, the words do not parse.
ReadOtherLine_parsed ==
    /\ status = "reading"
    /\ line # OtherLine
    /\ line' = OtherLine
    /\ status' = "panicked"
    /\ UNCHANGED <<gcs, current_gc, events>>
    /\ UNCHANGED queryVars
    /\ UNCHANGED zVars
    /\ UNCHANGED replVars

\* A line that does not start with LINE_START: nothing is done with it. (A run
\* of such lines is one step.)
ReadOtherLine ==
    /\ status = "reading"
    /\ line # OtherLine
    /\ line' = OtherLine
    /\ UNCHANGED <<gcs, current_gc, status, events>>
    /\ UNCHANGED queryVars
    /\ UNCHANGED zVars
    /\ UNCHANGED replVars

\* A line with the prefix whose words do not parse (flag, hex address or size).
ReadBadLine ==
    /\ status = "reading"
    /\ line' = BadLine
    /\ status' = "panicked"
    /\ UNCHANGED <<gcs, current_gc, events>>
    /\ UNCHANGED queryVars
    /\ UNCHANGED zVars
    /\ UNCHANGED replVars

\* Mutant of EndOfInput: the open GC is not pushed.
EndOfInput_unsealed ==
    /\ status = "reading"
    /\ gcs' = gcs
    /\ current_gc' = <<>>
    /\ status' = "returned"
    /\ line' = Eof
    /\ UNCHANGED events
    /\ UNCHANGED queryVars
    /\ UNCHANGED zVars
    /\ UNCHANGED replVars

\* Mutant of EndOfInput: without an open GC an empty one is pushed.
EndOfInput_default ==
    /\ status = "reading"
    /\ gcs' = Append(gcs, IF current_gc # <<>> THEN current_gc[1] ELSE GC_new(FALSE))
    /\ current_gc' = <<>>
    /\ status' = "returned"
    /\ line' = Eof
    /\ UNCHANGED events
    /\ UNCHANGED queryVars
    /\ UNCHANGED zVars
    /\ UNCHANGED replVars

\* End of the reader: the open GC is pushed and gcs returned.
EndOfInput ==
    /\ status = "reading"
    /\ gcs' = IF current_gc # <<>> THEN Append(gcs, current_gc[1]) ELSE gcs
    /\ current_gc' = <<>>
    /\ status' = "returned"
    /\ line' = Eof
    /\ UNCHANGED events
    /\ UNCHANGED queryVars
    /\ UNCHANGED zVars
    /\ UNCHANGED replVars

----------------------------------------------------------------------------
\* find_moves

RECURSIVE follow_fwd(_, _)
follow_fwd(gs, a) ==
    IF gs = <<>> THEN <<>>
    ELSE IF a \notin DOMAIN gs[1].moves_fwd THEN <<>>
    ELSE <<gs[1].moves_fwd[a].addr>> \o follow_fwd(Tail(gs), a)

RECURSIVE follow_bwd(_, _)
follow_bwd(gs, a) ==
    IF gs = <<>> THEN <<>>
    ELSE LET gc == gs[Len(gs)]
         IN IF a \notin DOMAIN gc.moves_bwd THEN <<>>
            ELSE <<gc.moves_bwd[a].addr>> \o follow_bwd(SubSeq(gs, 1, Len(gs) - 1), a)

\* Mutant of After: the slice starts at GC n itself, &gcs[n..].
After_from_n(gs, n) == SubSeq(gs, n + 1, Len(gs))

\* &gcs[n + 1..] and &gcs[0..n] for the 0-based index n
After(gs, n) == SubSeq(gs, n + 2, Len(gs))
\* Mutant of Before: the slice runs through GC n itself, &gcs[0..=n].
Before_through_n(gs, n) == SubSeq(gs, 1, n + 1)

Before(gs, n) == SubSeq(gs, 1, n)

\* First case, `a -> next_addr` in GC n.
FirstCase(gs, n, a) ==
    LET next_addr == gs[n + 1].moves_fwd[a]
        fwd_moves == follow_fwd(After(gs, n), next_addr.addr)
        bwd_moves == follow_bwd(Before(gs, n), a)
        first_move == n - Len(bwd_moves)
    IN Moves(a, first_move, Reverse(bwd_moves) \o <<a, next_addr.addr>> \o fwd_moves)

\* Mutant of SecondCase: the two addresses pushed in the first case's order.
SecondCase_swapped(gs, n, a) ==
    LET prev_addr == gs[n + 1].moves_bwd[a]
        fwd_moves == follow_fwd(After(gs, n), a)
        bwd_moves == follow_bwd(Before(gs, n), prev_addr.addr)
        first_move == n - Len(bwd_moves)
    IN Moves(a, first_move, Reverse(bwd_moves) \o <<a, prev_addr.addr>> \o fwd_moves)

\* Second case, `prev_addr -> a` in GC n.
SecondCase(gs, n, a) ==
    LET prev_addr == gs[n + 1].moves_bwd[a]
        fwd_moves == follow_fwd(After(gs, n), a)
        bwd_moves == follow_bwd(Before(gs, n), prev_addr.addr)
        first_move == n - Len(bwd_moves)
    IN Moves(a, first_move, Reverse(bwd_moves) \o <<prev_addr.addr, a>> \o fwd_moves)

\* Mutant of FirstFires: the first case is looked for in minor GCs only.
FirstFires_minor_only(gs, n, a, skip) ==
    ~skip /\ ~gs[n + 1].major /\ a \in DOMAIN gs[n + 1].moves_fwd

\* Mutant of FirstFires: the test of the flag inverted.
FirstFires_inverted(gs, n, a, skip) == skip /\ a \in DOMAIN gs[n + 1].moves_fwd

\* Mutant of FirstFires: the flag is not looked at.
FirstFires_unskipped(gs, n, a, skip) == a \in DOMAIN gs[n + 1].moves_fwd

FirstFires(gs, n, a, skip) == ~skip /\ a \in DOMAIN gs[n + 1].moves_fwd
SecondFires(gs, n, a) == a \in DOMAIN gs[n + 1].moves_bwd

\* Mutant of NextSkip: the flag is not reset.
NextSkip_sticky(gs, n, a, skip) == skip \/ a \in DOMAIN gs[n + 1].moves_bwd

\* Mutant of NextSkip: the flag is set by either case.
NextSkip_either(gs, n, a, skip) ==
    (~skip /\ a \in DOMAIN gs[n + 1].moves_fwd) \/ a \in DOMAIN gs[n + 1].moves_bwd

\* skip_first_case after the iteration: reset, then set by the second case.
NextSkip(gs, n, a, skip) == SecondFires(gs, n, a)

\* Mutant of Pushed: the second case handled before the first.
Pushed_second_first(gs, n, a, skip) ==
    (IF a \in DOMAIN gs[n + 1].moves_bwd
        THEN <<[chain |-> SecondCase(gs, n, a), gc |-> n, case |-> 2]>> ELSE <<>>)
    \o
    (IF ~skip /\ a \in DOMAIN gs[n + 1].moves_fwd
        THEN <<[chain |-> FirstCase(gs, n, a), gc |-> n, case |-> 1]>> ELSE <<>>)

\* What one iteration of the for loop pushes, in order, with what pushed it.
Pushed(gs, n, a, skip) ==
    (IF FirstFires(gs, n, a, skip)
        THEN <<[chain |-> FirstCase(gs, n, a), gc |-> n, case |-> 1]>> ELSE <<>>)
    \o
    (IF SecondFires(gs, n, a)
        THEN <<[chain |-> SecondCase(gs, n, a), gc |-> n, case |-> 2]>> ELSE <<>>)

\* find_moves as a function of its arguments: the loop from GC n on.
RECURSIVE find_moves_from(_, _, _, _)
find_moves_from(gs, a, n, skip) ==
    IF n >= Len(gs) THEN <<>>
    ELSE LET p == Pushed(gs, n, a, skip)
         IN [i \in 1..Len(p) |-> p[i].chain]
            \o find_moves_from(gs, a, n + 1, NextSkip(gs, n, a, skip))

find_moves(gs, a) == find_moves_from(gs, a, 0, FALSE)

\* repl reads an address and calls find_moves(gcs, a).
Call(a) ==
    /\ status = "returned"
    /\ qpc \in {"idle", "done"}
    /\ qpc' = "loop"
    /\ addr' = a
    /\ gc_n' = 0
    /\ skip_first_case' = FALSE
    /\ ret' = <<>>
    /\ trig' = <<>>
    /\ UNCHANGED parseVars
    /\ UNCHANGED zVars
    /\ UNCHANGED replVars

\* One iteration of `for (gc_n, gc) in gcs.iter().enumerate()`.
Iterate ==
    /\ qpc = "loop"
    /\ gc_n < Len(gcs)
    /\ LET p == Pushed(gcs, gc_n, addr, skip_first_case)
       IN /\ ret' = ret \o [i \in 1..Len(p) |-> p[i].chain]
          /\ trig' = trig \o [i \in 1..Len(p) |-> [gc |-> p[i].gc, case |-> p[i].case]]
    /\ skip_first_case' = NextSkip(gcs, gc_n, addr, skip_first_case)
    /\ gc_n' = gc_n + 1
    /\ UNCHANGED <<qpc, addr>>
    /\ UNCHANGED parseVars
    /\ UNCHANGED zVars
    /\ UNCHANGED replVars

\* The loop is over: `ret` is returned.
Return ==
    /\ qpc = "loop"
    /\ gc_n = Len(gcs)
    /\ qpc' = "done"
    /\ UNCHANGED <<addr, gc_n, skip_first_case, ret, trig>>
    /\ UNCHANGED parseVars
    /\ UNCHANGED zVars
    /\ UNCHANGED replVars

----------------------------------------------------------------------------
\* z_encode, z_decode

\* A char is its code point, a string the sequence of its chars.
Ord ==
    ("(" :> 40) @@ (")" :> 41) @@ ("[" :> 91) @@ ("]" :> 93) @@ (":" :> 58)
    @@ ("&" :> 38) @@ ("|" :> 124) @@ ("^" :> 94) @@ ("$" :> 36) @@ ("=" :> 61)
    @@ (">" :> 62) @@ ("#" :> 35) @@ ("." :> 46) @@ ("<" :> 60) @@ ("-" :> 45)
    @@ ("!" :> 33) @@ ("+" :> 43) @@ ("'" :> 39) @@ ("\\" :> 92) @@ ("/" :> 47)
    @@ ("*" :> 42) @@ ("_" :> 95) @@ ("%" :> 37) @@ ("," :> 44) @@ (" " :> 32)
    @@ ("0" :> 48) @@ ("1" :> 49) @@ ("2" :> 50) @@ ("3" :> 51) @@ ("4" :> 52)
    @@ ("5" :> 53) @@ ("6" :> 54) @@ ("7" :> 55) @@ ("8" :> 56) @@ ("9" :> 57)
    @@ ("a" :> 97) @@ ("b" :> 98) @@ ("c" :> 99) @@ ("d" :> 100) @@ ("e" :> 101)
    @@ ("f" :> 102) @@ ("g" :> 103) @@ ("h" :> 104) @@ ("i" :> 105) @@ ("j" :> 106)
    @@ ("k" :> 107) @@ ("l" :> 108) @@ ("m" :> 109) @@ ("n" :> 110) @@ ("o" :> 111)
    @@ ("p" :> 112) @@ ("q" :> 113) @@ ("r" :> 114) @@ ("s" :> 115) @@ ("t" :> 116)
    @@ ("u" :> 117) @@ ("v" :> 118) @@ ("w" :> 119) @@ ("x" :> 120) @@ ("y" :> 121)
    @@ ("z" :> 122) @@ ("A" :> 65) @@ ("B" :> 66) @@ ("C" :> 67) @@ ("D" :> 68)
    @@ ("E" :> 69) @@ ("F" :> 70) @@ ("G" :> 71) @@ ("H" :> 72) @@ ("I" :> 73)
    @@ ("J" :> 74) @@ ("K" :> 75) @@ ("L" :> 76) @@ ("M" :> 77) @@ ("N" :> 78)
    @@ ("O" :> 79) @@ ("P" :> 80) @@ ("Q" :> 81) @@ ("R" :> 82) @@ ("S" :> 83)
    @@ ("T" :> 84) @@ ("U" :> 85) @@ ("V" :> 86) @@ ("W" :> 87) @@ ("X" :> 88)
    @@ ("Y" :> 89) @@ ("Z" :> 90)

Str(cs) == [i \in 1..Len(cs) |-> Ord[cs[i]]]

\* Option<String>, and the process aborted by a failed unwrap.
Some(str) == [tag |-> "Some", val |-> str]
None == [tag |-> "None", val |-> <<>>]
Panic == [tag |-> "Panic", val |-> <<>>]
NotRun == [tag |-> "NotRun", val |-> <<>>]

\* chars.next() at position i: the char, or NoChar at the end of the string.
NoChar == 0 - 1
CharAt(s, i) == IF i <= Len(s) THEN s[i] ELSE NoChar

DecDigits == {Ord[d] : d \in {"0", "1", "2", "3", "4", "5", "6", "7", "8", "9"}}
HexDigits == DecDigits \cup {Ord[d] : d \in {"a", "b", "c", "d", "e", "f",
                                              "A", "B", "C", "D", "E", "F"}}
DigitVal(c) ==
    IF c \in DecDigits THEN c - Ord["0"]
    ELSE IF c >= Ord["a"] THEN c - Ord["a"] + 10 ELSE c - Ord["A"] + 10

\* format!("{}", n) of a number n >= 0
RECURSIVE Decimal(_)
Decimal(n) == IF n < 10 THEN <<Ord["0"] + n>>
              ELSE Decimal(n \div 10) \o <<Ord["0"] + (n % 10)>>

\* The chars z_encode replaces, with what it pushes for each.
EncEscape ==
    (Ord[")"] :> Str(<<"Z", "R">>))
    @@ (Ord["["] :> Str(<<"Z", "M">>))
    @@ (Ord["]"] :> Str(<<"Z", "N">>))
    @@ (Ord[":"] :> Str(<<"Z", "C">>))
    @@ (Ord["&"] :> Str(<<"z", "a">>))
    @@ (Ord["|"] :> Str(<<"z", "b">>))
    @@ (Ord["^"] :> Str(<<"z", "c">>))
    @@ (Ord["$"] :> Str(<<"z", "d">>))
    @@ (Ord["="] :> Str(<<"z", "e">>))
    @@ (Ord[">"] :> Str(<<"z", "g">>))
    @@ (Ord["#"] :> Str(<<"z", "h">>))
    @@ (Ord["."] :> Str(<<"z", "i">>))
    @@ (Ord["<"] :> Str(<<"z", "l">>))
    @@ (Ord["-"] :> Str(<<"z", "m">>))
    @@ (Ord["!"] :> Str(<<"z", "n">>))
    @@ (Ord["+"] :> Str(<<"z", "p">>))
    @@ (Ord["'"] :> Str(<<"z", "q">>))
    @@ (Ord["\\"] :> Str(<<"z", "r">>))
    @@ (Ord["/"] :> Str(<<"z", "s">>))
    @@ (Ord["*"] :> Str(<<"z", "t">>))
    @@ (Ord["_"] :> Str(<<"z", "u">>))
    @@ (Ord["%"] :> Str(<<"z", "v">>))
    @@ (Ord["z"] :> Str(<<"z", "z">>))
    @@ (Ord["Z"] :> Str(<<"Z", "Z">>))

\* The run of ',' that starts at position i.
RECURSIVE Commas(_, _)
Commas(s, i) == IF CharAt(s, i) = Ord[","] THEN 1 + Commas(s, i + 1) ELSE 0

\* The loop after a '(' of z_encode, with `next` at position i: what is
\* pushed and where the outer loop goes on, or the failure.
RECURSIVE enc_tuple(_, _, _, _, _)
enc_tuple(s, i, consumed, unboxed, arity) ==
    LET c == CharAt(s, i)
    IN IF c = Ord["#"] THEN enc_tuple(s, i + 1, TRUE, TRUE, arity)
       ELSE IF c = Ord[" "] THEN enc_tuple(s, i + 1, TRUE, unboxed, arity)
       ELSE IF c = Ord[")"]
            THEN [ok |-> TRUE,
                  out |-> <<Ord["Z"]>> \o Decimal(arity)
                          \o <<IF unboxed THEN Ord["H"] ELSE Ord["T"]>>,
                  next |-> i + 1]
       ELSE IF c = Ord[","]
            THEN LET more == Commas(s, i + 1)
                 IN enc_tuple(s, i + 1 + more, TRUE, unboxed,
                              (IF arity = 0 THEN 2 ELSE arity + 1) + more)
       ELSE IF consumed THEN [ok |-> FALSE, out |-> <<>>, next |-> i]
            ELSE [ok |-> TRUE, out |-> Str(<<"Z", "L">>), next |-> i]

\* The outer loop of z_encode with `next` at position i and `ret` so far.
RECURSIVE enc_from(_, _, _)
enc_from(s, i, out) ==
    IF i > Len(s) THEN Some(out)
    ELSE IF s[i] = Ord["("]
         THEN LET t == enc_tuple(s, i + 1, FALSE, FALSE, 0)
              IN IF t.ok THEN enc_from(s, t.next, out \o t.out) ELSE None
    ELSE IF s[i] \in DOMAIN EncEscape THEN enc_from(s, i + 1, out \o EncEscape[s[i]])
    ELSE enc_from(s, i + 1, out \o <<s[i]>>)

z_encode(s) == enc_from(s, 1, <<>>)

\* The chars z_decode reads after 'z' and after 'Z', with what it pushes.
DecLower ==
    (Ord["a"] :> Ord["&"])
    @@ (Ord["b"] :> Ord["|"])
    @@ (Ord["c"] :> Ord["^"])
    @@ (Ord["d"] :> Ord["$"])
    @@ (Ord["e"] :> Ord["="])
    @@ (Ord["g"] :> Ord[">"])
    @@ (Ord["h"] :> Ord["#"])
    @@ (Ord["i"] :> Ord["."])
    @@ (Ord["l"] :> Ord["<"])
    @@ (Ord["m"] :> Ord["-"])
    @@ (Ord["n"] :> Ord["!"])
    @@ (Ord["p"] :> Ord["+"])
    @@ (Ord["q"] :> Ord["'"])
    @@ (Ord["r"] :> Ord["\\"])
    @@ (Ord["s"] :> Ord["/"])
    @@ (Ord["t"] :> Ord["*"])
    @@ (Ord["u"] :> Ord["_"])
    @@ (Ord["v"] :> Ord["%"])
    @@ (Ord["z"] :> Ord["z"])

DecUpper ==
    (Ord["Z"] :> Ord["Z"])
    @@ (Ord["L"] :> Ord["("])
    @@ (Ord["R"] :> Ord[")"])
    @@ (Ord["M"] :> Ord["["])
    @@ (Ord["N"] :> Ord["]"])
    @@ (Ord["C"] :> Ord[":"])

\* A string of digits without its leading zeros.
RECURSIVE Significant(_)
Significant(ds) ==
    IF ds # <<>> /\ ds[1] = Ord["0"] THEN Significant(Tail(ds)) ELSE ds

RECURSIVE Value(_, _)
Value(ds, radix) ==
    IF ds = <<>> THEN 0
    ELSE Value(SubSeq(ds, 1, Len(ds) - 1), radix) * radix + DigitVal(ds[Len(ds)])

\* u32::from_str_radix(hex, 16): an error for the empty string and for a
\* value above u32::MAX (more than 8 significant digits).
HexU32Ok(hex) == hex # <<>> /\ Len(Significant(hex)) <= 8

\* char::try_from(num) for the parsed hex: no char above 0x10FFFF nor in the
\* surrogates 0xD800..0xDFFF.
HexIsChar(hex) ==
    /\ Len(Significant(hex)) <= 6
    /\ Value(Significant(hex), 16) <= 1114111
    /\ ~(Value(Significant(hex), 16) \in 55296..57343)

\* num_str.parse::<u8>()
U8Ok(ds) == Len(Significant(ds)) <= 3 /\ Value(Significant(ds), 10) <= 255

\* What z_decode pushes for a tuple of the parsed number.
TupleText(num, unboxed) ==
    (IF unboxed THEN Str(<<"(", "#">>) ELSE Str(<<"(">>))
    \o (IF num = 0
        THEN (IF unboxed THEN Str(<<" ", "#", ")">>) ELSE Str(<<")">>))
        ELSE [i \in 1..(num - 1) |-> Ord[","]]
             \o (IF unboxed THEN Str(<<"#">>) ELSE <<>>)
             \o Str(<<")">>))

RECURSIVE dec_from(_, _, _)
RECURSIVE dec_hex(_, _, _, _)
RECURSIVE dec_tuple(_, _, _, _)

\* "Read hex": the loop after 'z' and a digit, with `next` at position i.
dec_hex(s, i, hex, out) ==
    LET c == CharAt(s, i)
    IN IF c = Ord["U"]
       THEN IF ~HexU32Ok(hex) THEN Panic
            ELSE IF ~HexIsChar(hex) THEN None
            ELSE dec_from(s, i + 1, out \o <<Value(Significant(hex), 16)>>)
       ELSE IF c \in HexDigits THEN dec_hex(s, i + 1, hex \o <<c>>, out)
       ELSE None

\* The loop after 'Z' and a digit, with the char to read at position i.
dec_tuple(s, i, num_str, out) ==
    LET c == CharAt(s, i)
    IN IF c \in {Ord["H"], Ord["T"]}
       THEN IF ~U8Ok(num_str) THEN None
            ELSE dec_from(s, i + 1,
                          out \o TupleText(Value(Significant(num_str), 10), c = Ord["H"]))
       ELSE IF c \in DecDigits THEN dec_tuple(s, i + 1, num_str \o <<c>>, out)
       ELSE None

\* The outer loop of z_decode with `next` at position i and `ret` so far.
dec_from(s, i, out) ==
    IF i > Len(s) THEN Some(out)
    ELSE LET c == s[i]
             n == CharAt(s, i + 1)
         IN IF c = Ord["z"]
            THEN IF n \in DOMAIN DecLower THEN dec_from(s, i + 2, out \o <<DecLower[n]>>)
                 ELSE IF n \in DecDigits
                      THEN dec_hex(s, i + 2, IF n # Ord["0"] THEN <<n>> ELSE <<>>, out)
                 ELSE None
            ELSE IF c = Ord["Z"]
            THEN IF n \in DOMAIN DecUpper THEN dec_from(s, i + 2, out \o <<DecUpper[n]>>)
                 ELSE IF n \in DecDigits THEN dec_tuple(s, i + 2, <<n>>, out)
                 ELSE None
            ELSE dec_from(s, i + 1, out \o <<c>>)

z_decode(s) == dec_from(s, 1, <<>>)

\* The chars of the arguments tried.
ZChars == {Ord[c] : c \in {"(", ")", "#", ",", " ", "z", "Z", "0", "2", "c", "U", "T", "H"}}
ZInputs == UNION {[1..n -> ZChars] : n \in 0..MaxZLen}

\* ze: z_encode of the argument.
Encode ==
    /\ zenc = NotRun
    /\ zdec = NotRun
    /\ zenc' = z_encode(zs)
    /\ UNCHANGED <<zs, zdec>>
    /\ UNCHANGED <<parseVars, queryVars, replVars>>

\* zd on what ze printed for the argument.
DecodeEncoded ==
    /\ zenc.tag = "Some"
    /\ zdec = NotRun
    /\ zdec' = z_decode(zenc.val)
    /\ UNCHANGED <<zs, zenc>>
    /\ UNCHANGED <<parseVars, queryVars, replVars>>

\* zd: z_decode of the argument.
Decode ==
    /\ zenc = NotRun
    /\ zdec = NotRun
    /\ zdec' = z_decode(zs)
    /\ UNCHANGED <<zs, zenc>>
    /\ UNCHANGED <<parseVars, queryVars, replVars>>

----------------------------------------------------------------------------
\* repl

NoInput == [kind |-> "none"]
NoOutput == [kind |-> "none"]
\* Ok(line) and the errors of rl.readline
Line(l) == [kind |-> "line", text |-> l]
Interrupted == [kind |-> "Interrupted"]
EofError == [kind |-> "Eof"]
ReadErrors == {[kind |-> k] : k \in {"Io", "Utf8Error", "Errno"}}

\* char::is_whitespace, which str::trim goes by.
IsWhitespace(c) ==
    c \in (9..13) \cup {32, 133, 160, 5760} \cup (8192..8202)
          \cup {8232, 8233, 8239, 8287, 12288}

\* line.trim().is_empty()
TrimIsEmpty(l) == \A i \in 1..Len(l) : IsWhitespace(l[i])

\* The number of bytes of a char in UTF-8.
Utf8Len(c) == IF c < 128 THEN 1 ELSE IF c < 2048 THEN 2 ELSE IF c < 65536 THEN 3 ELSE 4

\* &s[n..] from char i on, `off` bytes into the string: the chars from byte n
\* on, or the panic when n is beyond the end or inside a char.
RECURSIVE SliceFrom(_, _, _, _)
SliceFrom(s, i, off, n) ==
    IF off = n THEN Some(SubSeq(s, i, Len(s)))
    ELSE IF off > n \/ i > Len(s) THEN Panic
    ELSE SliceFrom(s, i + 1, off + Utf8Len(s[i]), n)

\* u64::from_str_radix(src, 16).ok(): None for the empty string, for a char
\* that is no hex digit (one leading '+' is accepted) and for a value above
\* u64::MAX (more than 16 significant digits).
HexU64(src) ==
    LET digits == IF src # <<>> /\ src[1] = Ord["+"] THEN Tail(src) ELSE src
    IN IF digits = <<>> THEN None
       ELSE IF \E i \in 1..Len(digits) : digits[i] \notin HexDigits THEN None
       ELSE IF Len(Significant(digits)) > 16 THEN None
       ELSE [tag |-> "Some", val |-> Value(Significant(digits), 16)]

parse_hex(s) ==
    LET rest == SliceFrom(s, 1, 0, 2)
    IN IF rest = Panic THEN Panic ELSE HexU64(rest.val)

\* The lines printed for one Moves: the 1-based GC index, the address, and
\* whether each is highlighted.
ShowMoves(gs, a, m) ==
    [k \in 1..Len(m.moves) |->
        LET n == m.first_move + k - 1
        IN [gc |-> n + 1,
            at |-> m.moves[k],
            highlight_gc |-> n < Len(gs) /\ gs[n + 1].major,
            highlight_addr |-> m.moves[k] = a]]

\* The 1-based index of the last major GC, 0 when there is none.
RECURSIVE last_major_gc(_)
last_major_gc(gs) ==
    IF gs = <<>> THEN 0
    ELSE IF gs[Len(gs)].major THEN Len(gs)
    ELSE last_major_gc(SubSeq(gs, 1, Len(gs) - 1))

\* repl is called with the gcs parse returned and prints its header.
ReplStart ==
    /\ status = "returned"
    /\ rpc = "off"
    /\ rpc' = "prompt"
    /\ rout' = [kind |-> "header", total |-> Len(gcs), last_major |-> last_major_gc(gcs)]
    /\ UNCHANGED rin
    /\ UNCHANGED <<parseVars, queryVars, zVars>>

\* ReplLine with the slice of parse_hex guarded: a line that cannot be cut at
\* byte 2 is answered as one without an address.
ReplLine_guarded(l) ==
    /\ rpc = "prompt"
    /\ rin' = Line(l)
    /\ IF TrimIsEmpty(l) THEN rpc' = "prompt" /\ rout' = NoOutput
       ELSE LET a == IF SliceFrom(l, 1, 0, 2) = Panic THEN None ELSE parse_hex(l)
            IN IF a = None
                  THEN rpc' = "prompt" /\ rout' = [kind |-> "unparsed", text |-> l]
                  ELSE /\ rpc' = "prompt"
                       /\ rout' = [kind |-> "moves",
                                   shown |-> LET found == find_moves(gcs, a.val)
                                             IN [i \in 1..Len(found) |->
                                                    ShowMoves(gcs, a.val, found[i])]]
    /\ UNCHANGED <<parseVars, queryVars, zVars>>

\* One turn of the loop with rl.readline returning Ok(l).
ReplLine(l) ==
    /\ rpc = "prompt"
    /\ rin' = Line(l)
    /\ IF TrimIsEmpty(l) THEN rpc' = "prompt" /\ rout' = NoOutput
       ELSE LET a == parse_hex(l)
            IN IF a = Panic
                  THEN rpc' = "panicked" /\ rout' = NoOutput
                  ELSE IF a = None
                  THEN rpc' = "prompt" /\ rout' = [kind |-> "unparsed", text |-> l]
                  ELSE /\ rpc' = "prompt"
                       /\ rout' = [kind |-> "moves",
                                   shown |-> LET found == find_moves(gcs, a.val)
                                             IN [i \in 1..Len(found) |->
                                                    ShowMoves(gcs, a.val, found[i])]]
    /\ UNCHANGED <<parseVars, queryVars, zVars>>

\* rl.readline returns Err(Interrupted | Eof): break.
ReplBreak(e) ==
    /\ rpc = "prompt"
    /\ rin' = e
    /\ rout' = NoOutput
    /\ rpc' = "exited"
    /\ UNCHANGED <<parseVars, queryVars, zVars>>

\* rl.readline returns Err(Io | Utf8Error | Errno): the error is printed, then
\* "Aborting.", and break.
ReplAbort(e) ==
    /\ rpc = "prompt"
    /\ rin' = e
    /\ rout' = [kind |-> "aborting", error |-> e]
    /\ rpc' = "exited"
    /\ UNCHANGED <<parseVars, queryVars, zVars>>

\* The chars of the lines typed: 233 is a char of two bytes.
ReplChars == {Ord[c] : c \in {"0", "x", "1", "g", " ", "+"}} \cup {233}
ReplLines == UNION {[1..n -> ReplChars] : n \in 0..MaxLineLen}

----------------------------------------------------------------------------

Init ==
    /\ gcs = <<>>
    /\ current_gc = <<>>
    /\ status = "reading"
    /\ line = NoLine
    /\ events = <<>>
    /\ qpc = "idle"
    /\ addr = 0
    /\ gc_n = 0
    /\ skip_first_case = FALSE
    /\ ret = <<>>
    /\ trig = <<>>
    /\ zs = <<>>
    /\ zenc = NotRun
    /\ zdec = NotRun
    /\ rpc = "off"
    /\ rin = NoInput
    /\ rout = NoOutput

\* main: parse, then repl calling find_moves. The traversal reads neither the
\* sizes nor the major flags, so the log here has one size and one flag.
Next ==
    \/ ReadGcLine(0)
    \/ \E from \in Addrs, to \in Addrs : ReadMoveLine(from, to, 1)
    \/ ReadOtherLine
    \/ ReadBadLine
    \/ EndOfInput
    \/ \E a \in Addrs : Call(a)
    \/ Iterate
    \/ Return

Spec == Init /\ [][Next]_vars

\* A call of find_moves runs on: the loop takes its next iteration and returns
\* at the end of the slice.
SpecFair == Spec /\ WF_vars(Iterate) /\ WF_vars(Return)

\* main over logs with major and minor GCs.
MajorNext ==
    \/ \E flag \in Flags : ReadGcLine(flag)
    \/ \E from \in Addrs, to \in Addrs :
          MovesRead < ParseMaxMoves /\ ReadMoveLine(from, to, 1)
    \/ ReadOtherLine
    \/ ReadBadLine
    \/ EndOfInput
    \/ \E a \in Addrs : Call(a)
    \/ Iterate
    \/ Return

SpecMajor == Init /\ [][MajorNext]_vars

\* parse alone, over logs with every flag and size.
ParseNext ==
    \/ \E flag \in Flags : ReadGcLine(flag)
    \/ \E from \in Addrs, to \in Addrs, size \in Sizes :
          MovesRead < ParseMaxMoves /\ ReadMoveLine(from, to, size)
    \/ ReadOtherLine
    \/ ReadBadLine
    \/ EndOfInput

SpecParse == Init /\ [][ParseNext]_vars

\* ze and zd on an argument.
ZInit ==
    /\ gcs = <<>>
    /\ current_gc = <<>>
    /\ status = "reading"
    /\ line = NoLine
    /\ events = <<>>
    /\ qpc = "idle"
    /\ addr = 0
    /\ gc_n = 0
    /\ skip_first_case = FALSE
    /\ ret = <<>>
    /\ trig = <<>>
    /\ zs \in ZInputs
    /\ zenc = NotRun
    /\ zdec = NotRun
    /\ rpc = "off"
    /\ rin = NoInput
    /\ rout = NoOutput

ZNext ==
    \/ Encode
    \/ DecodeEncoded
    \/ Decode

SpecZ == ZInit /\ [][ZNext]_vars

\* main: parse of a short log, then repl.
ReplNext ==
    \/ \E flag \in Flags : Len(gcs) + Len(current_gc) < ReplMaxEras /\ ReadGcLine(flag)
    \/ \E from \in Addrs, to \in Addrs :
          MovesRead < ReplMaxMoves /\ ReadMoveLine(from, to, 1)
    \/ ReadOtherLine
    \/ ReadBadLine
    \/ EndOfInput
    \/ ReplStart
    \/ \E l \in ReplLines : ReplLine(l)
    \/ \E e \in {Interrupted, EofError} : ReplBreak(e)
    \/ \E e \in ReadErrors : ReplAbort(e)

SpecRepl == Init /\ [][ReplNext]_vars

----------------------------------------------------------------------------
\* Vocabulary of the properties. GCs are numbered from 0, as in the code.

NGcs == Len(gcs)
GcIdx == 0..(NGcs - 1)
Fwd(e) == gcs[e + 1].moves_fwd
Bwd(e) == gcs[e + 1].moves_bwd
Range(s) == {s[i] : i \in 1..Len(s)}
Distinct(s) == \A i, j \in 1..Len(s) : i # j => s[i] # s[j]

\* Sequences of pairwise distinct addresses, of 2 addresses or more.
Paths == {p \in UNION {[1..n -> Addrs] : n \in 2..MaxAddr} : Distinct(p)}

\* GC e moves f to t, in both maps.
IsMove(e, f, t) ==
    /\ e \in GcIdx
    /\ f \in DOMAIN Fwd(e) /\ Fwd(e)[f].addr = t
    /\ t \in DOMAIN Bwd(e) /\ Bwd(e)[t].addr = f

\* One object goes along path in the consecutive GCs k, k + 1, ..., and no
\* other move of any GC mentions an address of path.
LoneChain(k, path) ==
    /\ \A i \in 1..(Len(path) - 1) : IsMove(k + i - 1, path[i], path[i + 1])
    /\ \A e \in GcIdx, a \in Range(path) :
          /\ a \in DOMAIN Fwd(e) =>
                \E i \in 1..(Len(path) - 1) : e = k + i - 1 /\ a = path[i]
          /\ a \in DOMAIN Bwd(e) =>
                \E i \in 1..(Len(path) - 1) : e = k + i - 1 /\ a = path[i + 1]

\* C1: when the store holds a lone chain a0 -> ... -> am of m >= 1 consecutive
\* GCs starting at GC k, find_moves of each ai returns exactly one Moves, with
\* moves = [a0, ..., am] and first_move = k.
C1_LoneChainFound ==
    qpc = "done" =>
        \A k \in GcIdx, path \in Paths :
            (LoneChain(k, path) /\ addr \in Range(path))
                => ret = <<Moves(addr, k, path)>>

\* The case of C1 the test has: chains of one and of two moves are found whole.
C1_ShortChainFound ==
    qpc = "done" =>
        \A k \in GcIdx, path \in Paths :
            (Len(path) <= 3 /\ LoneChain(k, path) /\ addr \in Range(path))
                => ret = <<Moves(addr, k, path)>>

\* The only GC holds y -> z and x -> y, for distinct x, y, z.
DoubleMove(x, y, z) ==
    /\ NGcs = 1
    /\ x # y /\ y # z /\ x # z
    /\ IsMove(0, y, z)
    /\ IsMove(0, x, y)

\* C2: in a store whose only GC holds y -> z and x -> y, find_moves(y) returns
\* [y, z] from GC 0 and then [x, y] from GC 0; when the GC holds nothing else,
\* find_moves(z) returns only [y, z] and find_moves(x) only [x, y].
C2_DoubleMove ==
    qpc = "done" =>
        \A x, y, z \in Addrs :
            DoubleMove(x, y, z) =>
                /\ addr = y => ret = <<Moves(y, 0, <<y, z>>), Moves(y, 0, <<x, y>>)>>
                /\ (addr = z /\ DOMAIN Fwd(0) = {x, y}) => ret = <<Moves(z, 0, <<y, z>>)>>
                /\ (addr = x /\ DOMAIN Fwd(0) = {x, y}) => ret = <<Moves(x, 0, <<x, y>>)>>

C2_Witness ==
    /\ qpc = "done"
    /\ \E x, y, z \in Addrs : DoubleMove(x, y, z) /\ addr = y /\ DOMAIN Fwd(0) = {x, y}
    /\ Len(ret) = 2

\* The Moves c shows, at the place of GC e, the move f -> t.
Shows(c, e, f, t) ==
    /\ c.first_move <= e
    /\ e - c.first_move + 2 <= Len(c.moves)
    /\ c.moves[e - c.first_move + 1] = f
    /\ c.moves[e - c.first_move + 2] = t

\* C3: every move of every GC that has the searched address as its source or
\* as its destination is shown, at the place of its GC, by a returned Moves.
C3_Complete ==
    qpc = "done" =>
        \A e \in GcIdx :
            /\ addr \in DOMAIN Fwd(e) =>
                  \E i \in 1..Len(ret) : Shows(ret[i], e, addr, Fwd(e)[addr].addr)
            /\ addr \in DOMAIN Bwd(e) =>
                  \E i \in 1..Len(ret) : Shows(ret[i], e, Bwd(e)[addr].addr, addr)

\* The skipped first case: the address arrives in one GC and leaves in the next.
C3_Witness ==
    /\ qpc = "done"
    /\ \E e \in GcIdx : e > 0 /\ addr \in DOMAIN Fwd(e) /\ addr \in DOMAIN Bwd(e - 1)
    /\ \E e \in GcIdx : addr \in DOMAIN Fwd(e) /\ (e = 0 \/ addr \notin DOMAIN Bwd(e - 1))
    /\ Len(ret) >= 2

\* C4: every two neighbours of a returned Moves are a move of the GC of their
\* place: moves[i] -> moves[i + 1] is in both maps of GC first_move + i.
C4_LinksConsistent ==
    qpc = "done" =>
        \A n \in 1..Len(ret) :
            \A i \in 1..(Len(ret[n].moves) - 1) :
                IsMove(ret[n].first_move + i - 1, ret[n].moves[i], ret[n].moves[i + 1])

\* C5: the Moves are returned in the order of the GCs whose move pushed them,
\* and of two pushed by the same GC the first case's comes first.
C5_Ordered ==
    /\ Len(trig) = Len(ret)
    /\ \A i \in 1..Len(ret) :
          /\ trig[i].gc \in GcIdx
          /\ trig[i].case = 1 =>
                /\ addr \in DOMAIN Fwd(trig[i].gc)
                /\ Shows(ret[i], trig[i].gc, addr, Fwd(trig[i].gc)[addr].addr)
          /\ trig[i].case = 2 =>
                /\ addr \in DOMAIN Bwd(trig[i].gc)
                /\ Shows(ret[i], trig[i].gc, Bwd(trig[i].gc)[addr].addr, addr)
    /\ \A i, j \in 1..Len(ret) :
          i < j => \/ trig[i].gc < trig[j].gc
                   \/ trig[i].gc = trig[j].gc /\ trig[i].case = 1 /\ trig[j].case = 2

C5_Witness ==
    /\ qpc = "done"
    /\ Len(ret) = 3
    /\ \E i \in 1..2 : trig[i].gc = trig[i + 1].gc
    /\ \E i \in 1..2 : trig[i].gc < trig[i + 1].gc

\* C6: find_moves returns no Moves exactly when the address is a key of no
\* map of any GC.
C6_EmptyIffAbsent ==
    qpc = "done" =>
        (ret = <<>> <=> \A e \in GcIdx : addr \notin DOMAIN Fwd(e) /\ addr \notin DOMAIN Bwd(e))

C6_WitnessAbsent ==
    /\ qpc = "done"
    /\ ret = <<>>
    /\ \E e \in GcIdx : Fwd(e) # EmptyMap

----------------------------------------------------------------------------
\* parse

\* The GCs parse holds: those pushed and the open one.
HeldGcs == gcs \o current_gc

\* The two maps of a GC are each other's inverse, sizes included.
Inverse(gc) ==
    /\ \A f \in DOMAIN gc.moves_fwd :
          /\ gc.moves_fwd[f].addr \in DOMAIN gc.moves_bwd
          /\ gc.moves_bwd[gc.moves_fwd[f].addr] = AddrSize(f, gc.moves_fwd[f].size)
    /\ \A t \in DOMAIN gc.moves_bwd :
          /\ gc.moves_bwd[t].addr \in DOMAIN gc.moves_fwd
          /\ gc.moves_fwd[gc.moves_bwd[t].addr] = AddrSize(t, gc.moves_bwd[t].size)
    /\ Cardinality(DOMAIN gc.moves_fwd) = Cardinality(DOMAIN gc.moves_bwd)

\* C7: as long as parse has not failed, the forward and the backward map of
\* every pushed GC and of the open GC are inverses of each other, with the
\* same sizes and the same number of entries.
C7_MapInversion ==
    status # "panicked" => \A i \in 1..Len(HeldGcs) : Inverse(HeldGcs[i])

\* Two relocation lines of different sizes processed, one reversing the other.
C7_Witness ==
    /\ status = "reading"
    /\ current_gc # <<>>
    /\ \E x, y \in Addrs :
          /\ x # y
          /\ DOMAIN current_gc[1].moves_fwd = {x, y}
          /\ current_gc[1].moves_fwd[x] = AddrSize(y, 1)
          /\ current_gc[1].moves_fwd[y] = AddrSize(x, 2)

\* C8: the store parse returns has as many GCs as the log has "GC" lines.
C8_ErasMatchBoundaries ==
    status = "returned" => Len(gcs) = Len(events)

\* parse_test: two "GC" lines, moves after the first and none after the second.
C8_Witness ==
    /\ status = "returned"
    /\ Len(events) = 2
    /\ Len(gcs) = 2
    /\ Cardinality(events[1]) = 2
    /\ events[2] = {}
    /\ gcs[2].moves_fwd = EmptyMap

\* The line read by this step is a relocation line.
ReadsMove == status = "reading" /\ line'.kind = "move"

\* C9: a relocation line whose source is the source of an earlier relocation
\* line after the same "GC" line makes parse fail, and a failed parse never
\* returns a store.
C9_DuplicateSourceFails ==
    [][/\ (ReadsMove /\ events # <<>>
             /\ \E r \in events[Len(events)] : r.from = line'.from)
          => status' = "panicked"
       /\ status = "panicked" => status' = "panicked"]_vars

\* x -> y then x -> z
C9_Witness ==
    /\ status = "panicked"
    /\ line.kind = "move"
    /\ events # <<>>
    /\ \E r \in events[Len(events)] : r.from = line.from /\ r.to # line.to

\* In a GC's lines no address is twice a source or twice a destination, and
\* the maps hold exactly the lines.
OncePerEra(i) ==
    /\ \A r1, r2 \in events[i] : (r1.from = r2.from \/ r1.to = r2.to) => r1 = r2
    /\ DOMAIN gcs[i].moves_fwd = {r.from : r \in events[i]}
    /\ DOMAIN gcs[i].moves_bwd = {r.to : r \in events[i]}
    /\ \A r \in events[i] : /\ gcs[i].moves_fwd[r.from] = AddrSize(r.to, r.size)
                            /\ gcs[i].moves_bwd[r.to] = AddrSize(r.from, r.size)

\* C10: a relocation line whose destination is the destination of an earlier
\* relocation line after the same "GC" line makes parse fail, no store being
\* returned then; so in a returned store every address is once a source and
\* once a destination per GC at most.
C10_DuplicateDestinationFails ==
    /\ [][/\ (ReadsMove /\ events # <<>>
                /\ \E r \in events[Len(events)] : r.to = line'.to)
             => status' = "panicked"
          /\ status = "panicked" => status' = "panicked"]_vars
    /\ [](status = "returned" =>
            /\ Len(gcs) = Len(events)
            /\ \A i \in 1..Len(events) : OncePerEra(i))

\* x -> y then z -> y: the forward entry of z is written, then parse fails.
C10_Witness ==
    /\ status = "panicked"
    /\ line.kind = "move"
    /\ current_gc # <<>>
    /\ \E r \in events[Len(events)] : r.to = line.to /\ r.from # line.from
    /\ line.from \in DOMAIN current_gc[1].moves_fwd
    /\ current_gc[1].moves_fwd[line.from].addr = line.to

----------------------------------------------------------------------------

\* C11: a relocation line read while no GC is open (before any "GC" line)
\* makes parse fail; no GC is opened or pushed for it.
C11_MoveBeforeGcFails ==
    [][(ReadsMove /\ current_gc = <<>>)
          => /\ status' = "panicked"
             /\ current_gc' = <<>>
             /\ gcs' = gcs
             /\ events' = events]_vars

C11_Witness ==
    /\ status = "panicked"
    /\ line.kind = "move"
    /\ events = <<>>
    /\ gcs = <<>>
    /\ current_gc = <<>>

\* No GC of the store has a move.
NoMoves == \A e \in GcIdx : Fwd(e) = EmptyMap /\ Bwd(e) = EmptyMap

\* C12: a log without "GC" lines is parsed to the empty store, and find_moves
\* on a store without moves (no GC, or GCs with empty maps) returns no Moves.
C12_EmptyTrace ==
    /\ (status = "returned" /\ events = <<>>) => gcs = <<>>
    /\ (qpc = "done" /\ NoMoves) => ret = <<>>

C12_Witness ==
    /\ qpc = "done"
    /\ events = <<>>
    /\ gcs = <<>>
    /\ ret = <<>>

\* GCs with empty maps: the other store of C12.
C12_WitnessEmptyGcs ==
    /\ qpc = "done"
    /\ NGcs = MaxEras
    /\ NoMoves
    /\ ret = <<>>

\* C14: a returned Moves that starts after GC 0 cannot be extended backward:
\* the GC before first_move has no backward entry for moves[0].
C14_BackwardMaximal ==
    qpc = "done" =>
        \A i \in 1..Len(ret) :
            ret[i].first_move > 0 =>
                ret[i].moves[1] \notin DOMAIN Bwd(ret[i].first_move - 1)

\* C15: a returned Moves that ends before the last GC cannot be extended
\* forward: the GC at its end has no forward entry for its last address.
C15_ForwardMaximal ==
    qpc = "done" =>
        \A i \in 1..Len(ret) :
            LET last == ret[i].first_move + Len(ret[i].moves) - 1
            IN last < NGcs => ret[i].moves[Len(ret[i].moves)] \notin DOMAIN Fwd(last)

\* The case (1 or 2) of GC e pushed a Moves.
Fired(e, case) == \E i \in 1..Len(trig) : trig[i] = [gc |-> e, case |-> case]

\* C16: going through the GCs in ascending order, the flag is set exactly
\* when the second case fired in the GC just visited; the first case of GC e
\* runs unless the second case fired in GC e - 1 (always in GC 0), and the
\* second case is never skipped.
C16_SkipOneStep ==
    qpc \in {"loop", "done"} =>
        /\ skip_first_case = (gc_n > 0 /\ addr \in DOMAIN Bwd(gc_n - 1))
        /\ \A e \in 0..(gc_n - 1) :
              /\ Fired(e, 2) <=> addr \in DOMAIN Bwd(e)
              /\ Fired(e, 1) <=> /\ addr \in DOMAIN Fwd(e)
                                 /\ (e = 0 \/ addr \notin DOMAIN Bwd(e - 1))

\* The second case fires in GC 0, nothing arrives in GC 1, and the first case
\* fires in GC 2.
C16_Witness ==
    /\ qpc = "done"
    /\ NGcs = 3
    /\ addr \in DOMAIN Bwd(0)
    /\ addr \notin DOMAIN Bwd(1)
    /\ addr \in DOMAIN Fwd(1)
    /\ addr \in DOMAIN Fwd(2)
    /\ ~Fired(1, 1)
    /\ Fired(2, 1)

\* The relocation lines a GC's forward map holds.
LinesOf(gc) ==
    {MoveLine(f, gc.moves_fwd[f].addr, gc.moves_fwd[f].size) : f \in DOMAIN gc.moves_fwd}

\* C17: the GCs are in the order of their "GC" lines: a "GC" line pushes the
\* open GC behind the pushed ones and opens one with its flag; a relocation
\* line goes into the open GC only; pushed GCs never change; so the i-th GC
\* holds exactly the relocation lines read after the i-th "GC" line.
C17_ErasInOrder ==
    /\ [][/\ \/ gcs' = gcs
             \/ current_gc # <<>> /\ gcs' = Append(gcs, current_gc[1])
          /\ (status = "reading" /\ line'.kind = "gc") =>
                /\ gcs' = gcs \o current_gc
                /\ current_gc' # <<>>
                /\ current_gc'[1].major = (line'.flag = 1)
                /\ LinesOf(current_gc'[1]) = {}
          /\ (ReadsMove /\ current_gc # <<>>) =>
                /\ gcs' = gcs
                /\ line'.from \in DOMAIN current_gc'[1].moves_fwd
                /\ current_gc'[1].moves_fwd[line'.from] = AddrSize(line'.to, line'.size)]_vars
    /\ [](status # "panicked" =>
            /\ Len(HeldGcs) = Len(events)
            /\ \A i \in 1..Len(events) : LinesOf(HeldGcs[i]) = events[i])

\* A major GC with one move, then a minor GC with another move.
C17_Witness ==
    /\ status = "returned"
    /\ Len(gcs) = 2
    /\ gcs[1].major /\ ~gcs[2].major
    /\ events[1] # {} /\ events[2] # {} /\ events[1] # events[2]

\* C19: a line that is neither a "GC" line nor a relocation line changes
\* nothing parse holds and does not make it fail.
C19_OtherLineIgnored ==
    [][(status = "reading" /\ line'.kind = "other")
          => /\ gcs' = gcs
             /\ current_gc' = current_gc
             /\ events' = events
             /\ status' = "reading"]_vars

\* Such a line read after a pushed GC and a relocation line of the open GC.
C19_Witness ==
    /\ status = "reading"
    /\ line = OtherLine
    /\ gcs # <<>>
    /\ current_gc # <<>>
    /\ LinesOf(current_gc[1]) # {}

\* The store gs with the major flags fl.
WithMajor(gs, fl) == [i \in 1..Len(gs) |-> [gs[i] EXCEPT !.major = fl[i]]]

\* C18: find_moves returns the same Moves on every store that differs from
\* the searched one in major flags only.
C18_MajorIgnored ==
    qpc = "done" =>
        \A fl \in [1..NGcs -> BOOLEAN] : find_moves(WithMajor(gcs, fl), addr) = ret

\* A call that returns Moves on a store with a major and a minor GC.
C18_Witness ==
    /\ qpc = "done"
    /\ NGcs >= 2
    /\ gcs[1].major /\ ~gcs[2].major
    /\ Len(ret) = 2

\* Of the i-th returned Moves: the addresses before the two of the pushing
\* move (what follow_bwd gave) and those after them (what follow_fwd gave).
PrefixLen(i) == trig[i].gc - ret[i].first_move
SuffixLen(i) == Len(ret[i].moves) - 2 - PrefixLen(i)

\* C20: every call of find_moves returns, after at most one iteration per GC;
\* a Moves pushed in GC e has at most e addresses before the pushing move and
\* at most (number of GCs) - e - 1 after it.
C20_Terminates ==
    /\ (qpc = "loop") ~> (qpc = "done")
    /\ [](qpc \in {"loop", "done"} =>
            /\ gc_n \in 0..NGcs
            /\ \A i \in 1..Len(ret) :
                  /\ PrefixLen(i) \in 0..trig[i].gc
                  /\ SuffixLen(i) \in 0..(NGcs - trig[i].gc - 1))
    /\ [][qpc = "loop" => \/ qpc' = "loop" /\ gc_n' = gc_n + 1
                          \/ qpc' = "done" /\ gc_n' = gc_n]_vars

\* A Moves pushed in the middle GC, with one step taken on either side.
C20_Witness ==
    /\ qpc = "done"
    /\ NGcs = 3
    /\ \E i \in 1..Len(ret) :
          trig[i].gc = 1 /\ PrefixLen(i) = 1 /\ SuffixLen(i) = 1

----------------------------------------------------------------------------
\* The Moves find_moves returns

\* C22: a Moves pushed by the first case in GC e has nothing before the
\* looked-up address: its first_move is e and its first address is the one
\* looked up, because the first case runs only when GC e - 1 has no backward
\* entry for it.
C22_FirstCaseNoPrefix ==
    qpc \in {"loop", "done"} =>
        \A i \in 1..Len(ret) :
            trig[i].case = 1 =>
                /\ ret[i].first_move = trig[i].gc
                /\ ret[i].moves[1] = addr
                /\ (trig[i].gc > 0 => addr \notin DOMAIN Bwd(trig[i].gc - 1))

\* The first case fires in the last of three GCs for an address that arrived
\* in the first one.
C22_Witness ==
    /\ qpc = "done"
    /\ NGcs = 3
    /\ addr \in DOMAIN Bwd(0)
    /\ \E i \in 1..Len(ret) : trig[i] = [gc |-> 2, case |-> 1]

\* C23: of every returned Moves, moves has at least two addresses, loc is the
\* looked-up address and is one of them, first_move is between 0 and the GC
\* that pushed it (gc_n - bwd_moves.len() does not underflow), and
\* first_move + len(moves) - 1 is at most the number of GCs, so that no index
\* shown with an address exceeds gcs.len().
C23_ChainBounds ==
    qpc \in {"loop", "done"} =>
        \A i \in 1..Len(ret) :
            /\ Len(ret[i].moves) >= 2
            /\ ret[i].loc = addr
            /\ addr \in Range(ret[i].moves)
            /\ ret[i].first_move \in 0..trig[i].gc
            /\ ret[i].first_move + Len(ret[i].moves) - 1 <= NGcs

\* A Moves that spans all three GCs: its last address is shown with index
\* gcs.len().
C23_Witness ==
    /\ qpc = "done"
    /\ NGcs = 3
    /\ \E i \in 1..Len(ret) :
          /\ ret[i].first_move = 0
          /\ Len(ret[i].moves) = 4
          /\ trig[i].gc = 1

\* C24: for every log parse accepts and every address, no two of the Moves
\* find_moves returns are equal in both first_move and moves.
C24_NoChainTwice ==
    qpc = "done" =>
        \A i, j \in 1..Len(ret) :
            (ret[i].first_move = ret[j].first_move /\ ret[i].moves = ret[j].moves)
                => i = j

----------------------------------------------------------------------------
\* z-encoding

\* C13: when z_encode returns Some(e) for a string, z_decode(e) returns
\* Some of that string.
C13_RoundTrip ==
    (zenc.tag = "Some" /\ zdec # NotRun) => zdec = Some(zs)

\* The pairs of encode_test and decode_test, in both directions.
TestPairs ==
    { <<Str(<<"(">>), Str(<<"Z", "L">>)>>,
      <<Str(<<")">>), Str(<<"Z", "R">>)>>,
      <<Str(<<"(", ")">>), Str(<<"Z", "0", "T">>)>>,
      <<Str(<<"(", "#", " ", "#", ")">>), Str(<<"Z", "0", "H">>)>>,
      <<Str(<<"(", ",", ")">>), Str(<<"Z", "2", "T">>)>>,
      <<Str(<<"(", ",", ",", ")">>), Str(<<"Z", "3", "T">>)>>,
      <<Str(<<"(", "#", ",", "#", ")">>), Str(<<"Z", "2", "H">>)>>,
      <<Str(<<"(", "#", ",", ",", "#", ")">>), Str(<<"Z", "3", "H">>)>>,
      <<Str(<<"T", "r", "a", "k">>), Str(<<"T", "r", "a", "k">>)>>,
      <<Str(<<"f", "o", "o", "_", "w", "i", "b">>),
        Str(<<"f", "o", "o", "z", "u", "w", "i", "b">>)>>,
      <<Str(<<">">>), Str(<<"z", "g">>)>>,
      <<Str(<<">", "1">>), Str(<<"z", "g", "1">>)>>,
      <<Str(<<"f", "o", "o", "#">>), Str(<<"f", "o", "o", "z", "h">>)>>,
      <<Str(<<"f", "o", "o", "#", "#">>), Str(<<"f", "o", "o", "z", "h", "z", "h">>)>>,
      <<Str(<<"f", "o", "o", "#", "#", "1">>),
        Str(<<"f", "o", "o", "z", "h", "z", "h", "1">>)>>,
      <<Str(<<"f", "o", "o", "Z">>), Str(<<"f", "o", "o", "Z", "Z">>)>>,
      <<Str(<<":", "+">>), Str(<<"Z", "C", "z", "p">>)>> }

\* The tests of the two functions pass.
TestsPass ==
    /\ \A t \in TestPairs : z_encode(t[1]) = Some(t[2]) /\ z_decode(t[2]) = Some(t[1])
    /\ z_decode(Str(<<"z", "2", "c", "U">>)) = Some(Str(<<",">>))

\* C25: z_decode is total: for every argument, a truncated or malformed
\* escape and a numeric escape of any number of digits included, it returns
\* Some or None and does not panic.
C25_DecodeTotal ==
    zdec # NotRun => zdec.tag \in {"Some", "None"}

----------------------------------------------------------------------------
\* repl

\* C21: every line read that is not blank and from which parse_hex gets no
\* address is answered with "Unable to parse address" and the prompt again;
\* the loop ends only when readline returns Interrupted, Eof or a read error,
\* never because of what a line holds.
C21_BadLineReported ==
    /\ rin.kind = "line" => rpc = "prompt"
    /\ (rin.kind = "line" /\ ~TrimIsEmpty(rin.text) /\ parse_hex(rin.text).tag # "Some")
          => rout = [kind |-> "unparsed", text |-> rin.text]
    /\ rpc \in {"exited", "panicked"} => rin \in {Interrupted, EofError} \cup ReadErrors

====
